---- MODULE Spec2Model ----
(***************************************************************************)
(* k8s-ecr-renew: the namespace watcher of main.go and the reconcile       *)
(* handler it runs for every namespace add/update event.  The handler      *)
(* fetches an ECR authorization token, creates or updates the secret       *)
(* "ecrsecret" of the namespace and makes the "default" service account    *)
(* reference that secret in its imagePullSecrets.                          *)
(*                                                                         *)
(* The informer runs the handler on one goroutine, one event at a time;    *)
(* pc is the position of that goroutine inside the handler.  The cluster   *)
(* and the ECR service are the environment: a call returns its natural     *)
(* result, or, while the environment is faulty, an error.                  *)
(***************************************************************************)
EXTENDS Integers, Sequences, FiniteSets, TLC

(* ------------------------------ bounds --------------------------------- *)
MaxInitRefs == 2       \* references the service accounts hold at start, in total
MaxRefreshInterval == 120   \* largest value given to -refresh-interval
MaxStrLen == 2         \* letters of an endpoint or token given to the encoder

Namespaces == {"ns1", "ns2"}
Endpoint == "https://123.dkr.ecr.us-east-1.amazonaws.com"
Tokens == {"QUJD", "REVG"}
OtherSecret == "other-secret"

(* --------------------------- program constants ------------------------- *)
secretName == "ecrsecret"
dockerJSONKey == ".dockerconfigjson"
secretType == "kubernetes.io/dockerconfigjson"
defaultName == "default"
DefaultRefreshInterval == 60        \* flag.Int("refresh-interval", 60, "")
Minute == 60                        \* time.Minute, in seconds

\* main.go 25: the format string, cut at its %s verbs
dockerJSONFormat ==
    <<"{\"auths\":{\"", "%s", "\":{\"auth\":\"", "%s", "\",\"email\":\"none\"}}}">>

\* fmt.Sprintf: the text of the format is copied, every %s verb takes the next
\* operand as it is; a verb without operand prints %!s(MISSING)
RECURSIVE Sprintf(_, _)
Sprintf(format, operands) ==
    IF format = << >> THEN ""
    ELSE IF Head(format) = "%s"
         THEN IF operands = << >>
              THEN "%!s(MISSING)" \o Sprintf(Tail(format), operands)
              ELSE Head(operands) \o Sprintf(Tail(format), Tail(operands))
         ELSE Head(format) \o Sprintf(Tail(format), operands)

\* variant: the two operands are passed in the other order
dockerJSONTemplateSwapped(endpoint, token) ==
    Sprintf(dockerJSONFormat, <<token, endpoint>>)

\* main.go 115: fmt.Sprintf(dockerJSONTemplate, endpoint, token)
dockerJSONTemplate(endpoint, token) ==
    Sprintf(dockerJSONFormat, <<endpoint, token>>)

NoError == "nil"
NotFound == "NotFound"              \* the object does not exist
AlreadyExists == "AlreadyExists"    \* create of an object that exists
Unavailable == "Unavailable"        \* permission, transport, server fault
EmptyName == "resource name may not be empty"
FetchErrCodes == {"ServerException", "InvalidParameterException", "RequestError"}

NoSecret == [name |-> "", type |-> "", data |-> << >>]
NoCredential == [endpoint |-> "", token |-> ""]
\* &v1.ServiceAccount{}: what Get leaves in its result when it fails
EmptyServiceAccount == [name |-> "", imagePullSecrets |-> << >>]
NoNamespace == [name |-> "", deleting |-> FALSE]

VARIABLES
    terminating,            \* cluster: namespace -> deletionTimestamp is set
    secrets,                \* cluster: namespace -> its secret "ecrsecret", or NoSecret
    serviceAccounts,        \* cluster: namespace -> its service account "default"
    faulty,                 \* environment: calls may fail
    known,                  \* informer: namespaces whose add event was delivered
    pc,                     \* dispatch goroutine: position in the handler
    ns,                     \* handler: the namespace object of the event
    newSecret,              \* handler: result of getECRSecret
    err,                    \* handler: err (secret Get, later service account Update)
    defaultServiceAcccont,  \* handler: result of ServiceAccounts(ns).Get
    defaultServiceErr,      \* handler: error of ServiceAccounts(ns).Get
    cfg,                    \* main: the parsed flags
    resyncPeriod,           \* WatchNamespaces: the informer's resync period, seconds
    run,                    \* history of the current (or last finished) handler run
    prev,                   \* history: what the run before it left, if it was clean
    initRefs,               \* history: the reference lists at start
    reconciled              \* history: namespaces with a fault-free finished run

vars == <<terminating, secrets, serviceAccounts, faulty, known, pc, ns,
          newSecret, err, defaultServiceAcccont, defaultServiceErr, cfg,
          resyncPeriod, run, prev, initRefs, reconciled>>

cluster == <<terminating, secrets, serviceAccounts>>
locals == <<ns, newSecret, err, defaultServiceAcccont, defaultServiceErr>>
startup == <<cfg, resyncPeriod>>

(* ------------------------------ helpers -------------------------------- *)
RECURSIVE CountName(_, _)
CountName(refs, name) ==
    IF refs = << >> THEN 0
    ELSE (IF Head(refs) = name THEN 1 ELSE 0) + CountName(Tail(refs), name)

HasName(refs, name) == \E i \in 1..Len(refs) : refs[i] = name

SeqsUpTo(S, n) == UNION {[1..k -> S] : k \in 0..n}

RECURSIVE TotalLen(_, _)
TotalLen(lists, S) ==
    IF S = {} THEN 0
    ELSE LET n == CHOOSE x \in S : TRUE
         IN  Len(lists[n]) + TotalLen(lists, S \ {n})

\* variant: the payload keeps the token of an earlier fetch
MakeSecretCached(name, endpoint, token) ==
    [name |-> name,
     type |-> "kubernetes.io/dockerconfigjson",
     data |-> (".dockerconfigjson" :> dockerJSONTemplate(endpoint, "QUJD"))]

\* main.go 109-117: the secret object getECRSecret builds
MakeSecret(name, endpoint, token) ==
    [name |-> name,
     type |-> secretType,
     data |-> (dockerJSONKey :> dockerJSONTemplate(endpoint, token))]

\* variant: the calls go to one fixed namespace
GetNameFixed(obj) == "ns1"

\* ns.GetName(): the namespace the handler's calls are made in
GetName(obj) == obj.name

\* variant: the deletionTimestamp test is missing
ShouldReconcileAlways(obj) == TRUE

\* main.go 153: the handler acts only on namespaces without deletionTimestamp
ShouldReconcile(obj) == ~obj.deleting

\* variant: the secret is created whatever the Get returned
SecretBranchCreate(getErr) == "secretCreate"

\* main.go 159/165: which secret call follows the Get
SecretBranch(getErr) == IF getErr = NoError THEN "secretUpdate" ELSE "secretCreate"

\* main.go 177: err != defaultServiceErr on error interfaces; two errors of
\* two calls are distinct values unless both are nil
ErrorsDiffer(e1, e2) == ~(e1 = NoError /\ e2 = NoError)

\* main.go 180-192: scan for the reference, overwrite it in place, else append
RECURSIVE FindName(_, _, _)
FindName(refs, name, i) ==
    IF i > Len(refs) THEN 0
    ELSE IF refs[i] = name THEN i ELSE FindName(refs, name, i + 1)

\* variant: the reference is appended without the scan
EnsureReferenceAppend(refs, name) == Append(refs, name)

\* variant: the scan removes the reference it finds and appends it again
EnsureReferenceMove(refs, name) ==
    Append(SelectSeq(refs, LAMBDA x : x # name), name)

EnsureReference(refs, name) ==
    LET i == FindName(refs, name, 1)
    IN  IF i # 0 THEN [refs EXCEPT ![i] = name] ELSE Append(refs, name)

NewRun == [ns |-> NoNamespace, kind |-> "", calls |-> << >>, failed |-> {},
           faults |-> {},
           logs |-> << >>, cred |-> NoCredential, fetchErr |-> NoError,
           secretBefore |-> NoSecret, refsBefore |-> << >>,
           reconciledBefore |-> FALSE, ret |-> NoError, done |-> FALSE,
           secretAfter |-> NoSecret, refsAfter |-> << >>]

NoPrev == [name |-> "", cred |-> NoCredential, secretAfter |-> NoSecret,
           refsAfter |-> << >>]

(* ------------------------------- Init ---------------------------------- *)
\* the process watching, started with the default flags; the handler reads
\* neither the refresh interval nor the resync period
Init ==
    /\ terminating = [n \in Namespaces |-> FALSE]
    /\ secrets \in [Namespaces -> {NoSecret, MakeSecret(secretName, Endpoint, "QUJD")}]
    /\ \E lists \in [Namespaces -> SeqsUpTo({OtherSecret, secretName}, MaxInitRefs)] :
          /\ TotalLen(lists, Namespaces) <= MaxInitRefs
          /\ serviceAccounts =
                [n \in Namespaces |-> [name |-> defaultName, imagePullSecrets |-> lists[n]]]
          /\ initRefs = lists
    /\ faulty = FALSE
    /\ known = {}
    /\ pc = "idle"
    /\ ns = NoNamespace
    /\ newSecret = NoSecret
    /\ err = NoError
    /\ defaultServiceAcccont = EmptyServiceAccount
    /\ defaultServiceErr = NoError
    /\ cfg = [RefreshInterval |-> DefaultRefreshInterval]
    /\ resyncPeriod = 1 * Minute
    /\ run = NewRun
    /\ prev = NoPrev
    /\ reconciled = {}

(* ------------------------- the environment ----------------------------- *)
\* the cluster sets deletionTimestamp on a namespace that is being deleted
MarkTerminating(n) ==
    /\ ~terminating[n]
    /\ UNCHANGED startup
    /\ terminating' = [terminating EXCEPT ![n] = TRUE]
    /\ UNCHANGED <<secrets, serviceAccounts, faulty, known, pc, locals,
                   run, prev, initRefs, reconciled>>

Degrade ==
    /\ ~faulty
    /\ UNCHANGED startup
    /\ faulty' = TRUE
    /\ UNCHANGED <<cluster, known, pc, locals, run, prev, initRefs, reconciled>>

Recover ==
    /\ faulty
    /\ UNCHANGED startup
    /\ faulty' = FALSE
    /\ UNCHANGED <<cluster, known, pc, locals, run, prev, initRefs, reconciled>>

\* results of ecrClient.GetAuthorizationToken(input)
GetAuthorizationToken ==
    {[AuthorizationData |-> <<[AuthorizationToken |-> t, ProxyEndpoint |-> Endpoint]>>,
      err |-> NoError] : t \in Tokens}
    \cup (IF faulty
          THEN {[AuthorizationData |-> << >>, err |-> c] : c \in FetchErrCodes}
          ELSE {})

\* results of client.Secrets(n).Get(secretName)
SecretsGet(n) ==
    {IF secrets[n] = NoSecret THEN NotFound ELSE NoError}
    \cup (IF faulty THEN {Unavailable} ELSE {})

\* results of client.Secrets(n).Update(newSecret)
SecretsUpdate(n) ==
    {IF secrets[n] = NoSecret THEN NotFound ELSE NoError}
    \cup (IF faulty THEN {Unavailable} ELSE {})

\* results of client.Secrets(n).Create(newSecret)
SecretsCreate(n) ==
    {IF secrets[n] = NoSecret THEN NoError ELSE AlreadyExists}
    \cup (IF faulty THEN {Unavailable} ELSE {})

\* results of client.ServiceAccounts(n).Get("default"): the object and the error
ServiceAccountsGet(n) ==
    {[result |-> serviceAccounts[n], err |-> NoError]}
    \cup (IF faulty THEN {[result |-> EmptyServiceAccount, err |-> Unavailable]} ELSE {})

\* results of client.ServiceAccounts(n).Update(sa): the request of an object
\* without a name is rejected before it is sent
ServiceAccountsUpdate(n, sa) ==
    IF sa.name = "" THEN {EmptyName}
    ELSE {NoError} \cup (IF faulty THEN {Unavailable} ELSE {})

(* ---------------------------- the handler ------------------------------ *)
Called(r, call, e) ==
    [r EXCEPT !.calls = Append(@, call),
              !.failed = IF e = NoError THEN @ ELSE @ \cup {call},
              !.faults = IF e \in {NoError, NotFound, AlreadyExists, EmptyName}
                         THEN @ ELSE @ \cup {call}]

Logged(r, line) == [r EXCEPT !.logs = Append(@, line)]

LoggedIf(r, cond, line) == IF cond THEN Logged(r, line) ELSE r

\* a run without injected fault that went through all its steps
Clean(r) == r.done /\ ShouldReconcile(r.ns) /\ r.faults = {} /\ r.ret = NoError

\* what a finished run leaves for the comparison with the next run
Summary(r) ==
    IF Clean(r)
    THEN [name |-> r.ns.name, cred |-> r.cred, secretAfter |-> r.secretAfter,
          refsAfter |-> r.refsAfter]
    ELSE NoPrev

\* variant: a returned error ends the process (logrus.Fatal)
AfterReturnFatal(ret) == IF ret # NoError THEN "crashed" ELSE "idle"

\* main.go 130-132, 135-137: a returned error is logged with logrus.Info and
\* the callback returns to the informer
AfterReturn(ret) == "idle"

\* the handler returns ret to AddFunc/UpdateFunc, which logs a non-nil error
Return(r, ret, secs, sas) ==
    LET n == r.ns.name
        r1 == LoggedIf(r, ret # NoError, "handler error")
    IN  /\ run' = [r1 EXCEPT !.ret = ret, !.done = TRUE,
                             !.secretAfter = secs[n],
                             !.refsAfter = sas[n].imagePullSecrets]
        /\ reconciled' = IF Clean(run') THEN reconciled \cup {n} ELSE reconciled
        /\ pc' = AfterReturn(ret)
        /\ ns' = NoNamespace
        /\ newSecret' = NoSecret
        /\ err' = NoError
        /\ defaultServiceAcccont' = EmptyServiceAccount
        /\ defaultServiceErr' = NoError

\* main.go 152-153, 200-201: the handler is entered with the namespace object
\* of the event and returns nil at once when the namespace is terminating
Handler(kind, obj) ==
    LET r == [NewRun EXCEPT !.ns = obj, !.kind = kind,
                            !.secretBefore = secrets[obj.name],
                            !.refsBefore = serviceAccounts[obj.name].imagePullSecrets,
                            !.reconciledBefore = obj.name \in reconciled]
    IN  /\ prev' = Summary(run)
        /\ IF ShouldReconcile(obj)
           THEN /\ pc' = "getECRSecret"
                /\ ns' = obj
                /\ run' = r
                /\ UNCHANGED <<newSecret, err, defaultServiceAcccont,
                               defaultServiceErr, reconciled>>
           ELSE Return(r, NoError, secrets, serviceAccounts)

\* the namespace objects an event for n can carry: the namespace as it is, or
\* as the informer saw it before deletionTimestamp was set
Observed(n) == {[name |-> n, deleting |-> d] : d \in {FALSE, terminating[n]}}

\* variant: every event is handled on a goroutine of its own
CanDeliverConcurrently(position) == position # "crashed"

\* main.go 141 and 130, 135: informer.Run delivers on the one goroutine that
\* called it and the callbacks call the handler synchronously, so an event is
\* delivered when the handler of the last one has returned
CanDeliver(position) == position = "idle"

\* main.go 129-133: AddFunc, the first delivery of a namespace; the informer
\* delivers the next event when the handler of the last one has returned
AddFunc(n) ==
    /\ CanDeliver(pc)
    /\ UNCHANGED startup
    /\ n \notin known
    /\ known' = known \cup {n}
    /\ \E obj \in Observed(n) : Handler("add", obj)
    /\ UNCHANGED <<cluster, faulty, initRefs>>

\* main.go 134-138: UpdateFunc, a change of the namespace or the resync
UpdateFunc(n) ==
    /\ CanDeliver(pc)
    /\ UNCHANGED startup
    /\ n \in known
    /\ \E obj \in Observed(n) : Handler("update", obj)
    /\ UNCHANGED <<cluster, faulty, known, initRefs>>

\* main.go 156 and 88-118: getECRSecret; the error is printed and the first
\* entry of AuthorizationData is read whatever the error was, which panics
\* on the empty list and ends the process
GetECRSecret ==
    /\ pc = "getECRSecret"
    /\ UNCHANGED startup
    /\ \E result \in GetAuthorizationToken :
          LET r1 == Called(run, "fetch", result.err)
              r2 == [LoggedIf(r1, result.err # NoError, result.err)
                        EXCEPT !.fetchErr = result.err]
          IN  IF Len(result.AuthorizationData) = 0
              THEN /\ pc' = "crashed"
                   /\ run' = Logged(r2, "panic: index out of range")
                   /\ UNCHANGED newSecret
              ELSE LET token == result.AuthorizationData[1].AuthorizationToken
                       endpoint == result.AuthorizationData[1].ProxyEndpoint
                   IN  /\ pc' = "secretGet"
                       /\ newSecret' = MakeSecret(secretName, endpoint, token)
                       /\ run' = [r2 EXCEPT !.cred = [endpoint |-> endpoint,
                                                      token |-> token]]
    /\ UNCHANGED <<cluster, faulty, known, ns, err, defaultServiceAcccont,
                   defaultServiceErr, prev, initRefs, reconciled>>

\* main.go 158-160, 165-166: read the existing secret and pick the branch
SecretGet ==
    /\ pc = "secretGet"
    /\ UNCHANGED startup
    /\ \E e \in SecretsGet(GetName(ns)) :
          /\ err' = e
          /\ pc' = SecretBranch(e)
          /\ run' = Logged(Called(run, "secretGet", e),
                           IF SecretBranch(e) = "secretUpdate"
                           THEN "Found existing secret" ELSE "Secret does not exist")
    /\ UNCHANGED <<cluster, faulty, known, ns, newSecret,
                   defaultServiceAcccont, defaultServiceErr, prev, initRefs, reconciled>>

\* main.go 161-164: update; a failure is logged and the handler goes on
SecretUpdate ==
    /\ pc = "secretUpdate"
    /\ UNCHANGED startup
    /\ \E updateErr \in SecretsUpdate(GetName(ns)) :
          /\ secrets' = IF updateErr = NoError
                        THEN [secrets EXCEPT ![GetName(ns)] = newSecret] ELSE secrets
          /\ run' = LoggedIf(Called(run, "secretUpdate", updateErr),
                             updateErr # NoError, "Error creating secret")
    /\ pc' = "saGet"
    /\ UNCHANGED <<terminating, serviceAccounts, faulty, known, locals,
                   prev, initRefs, reconciled>>

\* main.go 167-171: create; a failure is logged and the handler returns err,
\* the error of the Get
SecretCreate ==
    /\ pc = "secretCreate"
    /\ UNCHANGED startup
    /\ \E createErr \in SecretsCreate(GetName(ns)) :
          LET r == Called(run, "secretCreate", createErr)
          IN  IF createErr = NoError
              THEN /\ secrets' = [secrets EXCEPT ![GetName(ns)] = newSecret]
                   /\ run' = r
                   /\ pc' = "saGet"
                   /\ UNCHANGED <<locals, reconciled>>
              ELSE /\ secrets' = secrets
                   /\ Return(Logged(r, "Error creating secret"), err,
                             secrets, serviceAccounts)
    /\ UNCHANGED <<terminating, serviceAccounts, faulty, known, prev, initRefs>>

\* main.go 175-192: read the default service account, compare the errors,
\* and put the reference into the list of the object that was read
ServiceAccountGet ==
    /\ pc = "saGet"
    /\ UNCHANGED startup
    /\ \E got \in ServiceAccountsGet(GetName(ns)) :
          /\ defaultServiceErr' = got.err
          /\ defaultServiceAcccont' =
                [got.result EXCEPT !.imagePullSecrets = EnsureReference(@, newSecret.name)]
          /\ run' = LoggedIf(Called(run, "saGet", got.err),
                             ErrorsDiffer(err, got.err), "Could not get ServiceAccounts!")
    /\ pc' = "saUpdate"
    /\ UNCHANGED <<cluster, faulty, known, ns, newSecret, err, prev,
                   initRefs, reconciled>>

\* main.go 195-199: write the service account back and return
ServiceAccountUpdate ==
    /\ pc = "saUpdate"
    /\ UNCHANGED startup
    /\ \E e \in ServiceAccountsUpdate(GetName(ns), defaultServiceAcccont) :
          LET sas == IF e = NoError
                     THEN [serviceAccounts EXCEPT ![GetName(ns)] = defaultServiceAcccont]
                     ELSE serviceAccounts
          IN  /\ serviceAccounts' = sas
              /\ Return(Called(run, "saUpdate", e),
                        IF e # NoError THEN "Could update ServiceAccount!" ELSE NoError,
                        secrets, sas)
    /\ UNCHANGED <<terminating, secrets, faulty, known, prev, initRefs>>

(* --------------------------- specification ----------------------------- *)
Next ==
    \/ \E n \in Namespaces : MarkTerminating(n)
    \/ Degrade
    \/ Recover
    \/ \E n \in Namespaces : AddFunc(n)
    \/ \E n \in Namespaces : UpdateFunc(n)
    \/ GetECRSecret
    \/ SecretGet
    \/ SecretUpdate
    \/ SecretCreate
    \/ ServiceAccountGet
    \/ ServiceAccountUpdate

Spec == Init /\ [][Next]_vars

TypeOK ==
    /\ pc \in {"idle", "getECRSecret", "secretGet", "secretUpdate", "secretCreate",
               "saGet", "saUpdate", "crashed", "main", "parsed"}
    /\ known \subseteq Namespaces

FairSpec ==
    /\ Spec
    /\ WF_vars(GetECRSecret)
    /\ WF_vars(SecretGet)
    /\ WF_vars(SecretUpdate)
    /\ WF_vars(SecretCreate)
    /\ WF_vars(ServiceAccountGet)
    /\ WF_vars(ServiceAccountUpdate)
    /\ \A n \in Namespaces : SF_vars(AddFunc(n)) /\ SF_vars(UpdateFunc(n))

(* ------------------------- the process start --------------------------- *)
RefreshIntervals == 1..MaxRefreshInterval

NoConfig == [RefreshInterval |-> 0]

\* the cluster as main finds it
ClusterInit ==
    /\ terminating = [n \in Namespaces |-> FALSE]
    /\ secrets \in [Namespaces -> {NoSecret, MakeSecret(secretName, Endpoint, "QUJD")}]
    /\ \E lists \in [Namespaces -> SeqsUpTo({OtherSecret, secretName}, MaxInitRefs)] :
          /\ TotalLen(lists, Namespaces) <= MaxInitRefs
          /\ serviceAccounts =
                [n \in Namespaces |-> [name |-> defaultName, imagePullSecrets |-> lists[n]]]
          /\ initRefs = lists
    /\ faulty = FALSE

HandlerIdle ==
    /\ known = {}
    /\ ns = NoNamespace
    /\ newSecret = NoSecret
    /\ err = NoError
    /\ defaultServiceAcccont = EmptyServiceAccount
    /\ defaultServiceErr = NoError
    /\ run = NewRun
    /\ prev = NoPrev
    /\ reconciled = {}

\* main.go 144-145: the process before the flags are parsed
StartInit ==
    /\ ClusterInit
    /\ HandlerIdle
    /\ pc = "main"
    /\ cfg = NoConfig
    /\ resyncPeriod = 0

\* main.go 146 and 37-50: parse; the flag takes any value given on the command line
Parse ==
    /\ pc = "main"
    /\ \E refreshInterval \in RefreshIntervals :
          cfg' = [RefreshInterval |-> refreshInterval]
    /\ pc' = "parsed"
    /\ UNCHANGED <<cluster, faulty, known, locals, resyncPeriod, run, prev,
                   initRefs, reconciled>>

\* main.go 152 and 121-127: WatchNamespaces is called with
\* time.Duration(1)*time.Minute as resyncPeriod and hands it to the informer
WatchNamespaces ==
    /\ pc = "parsed"
    /\ resyncPeriod' = 1 * Minute
    /\ pc' = "idle"
    /\ UNCHANGED <<cluster, faulty, known, locals, cfg, run, prev, initRefs, reconciled>>

StartNext == Parse \/ WatchNamespaces

StartSpec == StartInit /\ [][StartNext]_vars

(* ----------------------------- the encoder ----------------------------- *)
Alphabet == {"A", "\"", "%s"}

RECURSIVE Strings(_)
Strings(n) ==
    IF n = 0 THEN {""}
    ELSE LET shorter == Strings(n - 1)
         IN  shorter \cup {str \o c : str \in shorter, c \in Alphabet}

EncoderInputs == Strings(MaxStrLen) \cup {Endpoint} \cup Tokens

\* getECRSecret after a fetch that returned the endpoint and token of run.cred
EncoderInit ==
    /\ terminating = [n \in Namespaces |-> FALSE]
    /\ secrets = [n \in Namespaces |-> NoSecret]
    /\ serviceAccounts =
          [n \in Namespaces |-> [name |-> defaultName, imagePullSecrets |-> << >>]]
    /\ initRefs = [n \in Namespaces |-> << >>]
    /\ faulty = FALSE
    /\ known = {"ns1"}
    /\ ns = [name |-> "ns1", deleting |-> FALSE]
    /\ newSecret = NoSecret
    /\ err = NoError
    /\ defaultServiceAcccont = EmptyServiceAccount
    /\ defaultServiceErr = NoError
    /\ prev = NoPrev
    /\ reconciled = {}
    /\ cfg = [RefreshInterval |-> DefaultRefreshInterval]
    /\ resyncPeriod = 1 * Minute
    /\ pc = "getECRSecret"
    /\ \E endpoint \in EncoderInputs, token \in EncoderInputs :
          run = [NewRun EXCEPT !.ns = ns, !.kind = "add", !.calls = <<"fetch">>,
                               !.cred = [endpoint |-> endpoint, token |-> token]]

\* main.go 107-117: the secret is built from the endpoint and the token
Encode ==
    /\ pc = "getECRSecret"
    /\ newSecret' = MakeSecret(secretName, run.cred.endpoint, run.cred.token)
    /\ pc' = "secretGet"
    /\ UNCHANGED <<cluster, faulty, known, ns, err, defaultServiceAcccont,
                   defaultServiceErr, startup, run, prev, initRefs, reconciled>>

EncoderNext == Encode

EncoderSpec == EncoderInit /\ [][EncoderNext]_vars

(* ------------------------------ properties ----------------------------- *)
Refs(n) == serviceAccounts[n].imagePullSecrets

SecretCalls == {"secretGet", "secretUpdate", "secretCreate"}
IdentityCalls == {"saGet", "saUpdate"}

Issued(r, call) == CountName(r.calls, call)

Succeeded(r, call) == Issued(r, call) > 0 /\ call \notin r.failed

\* C1: skip-on-deletion.  A handler run whose namespace object has
\* deletionTimestamp set issues no call at all (no fetch, no secret call, no
\* service account call), leaves secret and reference list as they were and
\* returns nil.
C1_SkipOnDeletion ==
    run.ns.deleting =>
        /\ run.calls = << >>
        /\ run.done /\ pc = "idle"
        /\ run.ret = NoError
        /\ run.secretAfter = run.secretBefore
        /\ run.refsAfter = run.refsBefore

C1_Witness ==
    /\ run.ns.deleting /\ run.done /\ run.kind = "update"
    /\ terminating[run.ns.name]

\* C2: no duplicate references.  A service account that starts with at most
\* one reference named "ecrsecret" has at most one such reference after any
\* number of handler runs, whatever calls failed in them.
C2_NoDuplicateReferences ==
    \A n \in Namespaces :
        CountName(initRefs[n], secretName) <= 1
            => CountName(Refs(n), secretName) <= 1

C2_Witness ==
    /\ run.done /\ run.reconciledBefore /\ Succeeded(run, "saUpdate")
    /\ initRefs[run.ns.name] = <<OtherSecret>>
    /\ CountName(Refs(run.ns.name), secretName) = 1

\* C3: idempotence.  When two handler runs in a row are for the same
\* non-terminating namespace, fetch the same credential and meet no failing
\* call, the secret and the reference list after the second run equal those
\* after the first.
C3_Idempotence ==
    (Clean(run) /\ prev # NoPrev /\ prev.name = run.ns.name /\ prev.cred = run.cred)
        => /\ run.secretAfter = prev.secretAfter
           /\ run.refsAfter = prev.refsAfter
           /\ secrets[run.ns.name] = prev.secretAfter
           /\ Refs(run.ns.name) = prev.refsAfter

C3_Witness ==
    /\ Clean(run) /\ prev # NoPrev /\ prev.name = run.ns.name /\ prev.cred = run.cred
    /\ Succeeded(run, "secretUpdate") /\ Succeeded(run, "saUpdate")
    /\ HasName(run.refsAfter, secretName)

\* C4: a failed credential fetch aborts the current run only: the run issues
\* no secret or service account call, does not read the first entry of the
\* (empty) authorization data, and the process goes on to handle later events.
C4_FailedFetchAbortsRunOnly ==
    run.fetchErr # NoError =>
        /\ run.calls = <<"fetch">>
        /\ ~HasName(run.logs, "panic: index out of range")
        /\ pc # "crashed"

\* C5: partial-failure isolation.  In a finished run for a non-terminating
\* namespace whose fetch succeeded, a failed secret call (Get, Update or
\* Create) does not keep the run from reading the default service account.
C5_PartialFailureIsolation ==
    (run.done /\ ~run.ns.deleting /\ run.fetchErr = NoError
        /\ run.failed \cap SecretCalls # {})
        => Issued(run, "saGet") = 1

\* C6: the handler returns an error exactly when the Get or the Update of the
\* default service account failed in that run; a failed secret call alone
\* leaves the returned value nil.
C6_ReturnsIdentityFailureOnly ==
    (run.done /\ ~run.ns.deleting)
        => (run.ret # NoError <=> run.failed \cap IdentityCalls # {})

\* C7: credential refresh.  Once the fetch and the secret write (Create or
\* Update) of a run have succeeded, the namespace holds the secret
\* "ecrsecret" of type kubernetes.io/dockerconfigjson whose only data key
\* .dockerconfigjson is the encoding of the credential fetched in that run.
C7_CredentialRefresh ==
    (run.fetchErr = NoError
        /\ (Succeeded(run, "secretUpdate") \/ Succeeded(run, "secretCreate")))
        => LET s == secrets[run.ns.name]
           IN  /\ s.name = "ecrsecret"
               /\ s.type = "kubernetes.io/dockerconfigjson"
               /\ DOMAIN s.data = {".dockerconfigjson"}
               /\ s.data[".dockerconfigjson"]
                     = dockerJSONTemplate(run.cred.endpoint, run.cred.token)
               /\ run.cred.token \in Tokens

C7_Witness ==
    /\ run.done /\ Succeeded(run, "secretUpdate")
    /\ run.secretBefore # NoSecret
    /\ run.secretBefore # secrets[run.ns.name]
    /\ run.cred.token = "REVG"

\* C8: create-then-update.  Without injected failure, the first run for a
\* namespace that has no secret issues exactly one secret Create and no
\* secret Update; every run after a fault-free run of that namespace issues
\* exactly one secret Update and no secret Create.
C8_CreateThenUpdate ==
    (run.done /\ ~run.ns.deleting /\ run.faults = {})
        => /\ (run.secretBefore = NoSecret /\ ~run.reconciledBefore)
                => (Issued(run, "secretCreate") = 1 /\ Issued(run, "secretUpdate") = 0)
           /\ run.reconciledBefore
                => (Issued(run, "secretUpdate") = 1 /\ Issued(run, "secretCreate") = 0)

C8_Witness ==
    /\ run.done /\ ~run.ns.deleting /\ run.faults = {}
    /\ run.reconciledBefore
    /\ initRefs[run.ns.name] = << >>
    /\ Issued(run, "secretUpdate") = 1

\* C9: append-only-once.  No step removes, renames or reorders a reference:
\* a list that has a reference named "ecrsecret" stays as it is, a list
\* without one stays as it is or gets that one reference at its end; and a
\* run whose service account Update succeeded leaves the list it found, with
\* "ecrsecret" appended when it was missing.
C9_AppendOnlyOnce ==
    [][ /\ \A n \in Namespaces :
              IF HasName(Refs(n), secretName)
              THEN Refs(n)' = Refs(n)
              ELSE Refs(n)' \in {Refs(n), Append(Refs(n), secretName)}
        /\ (run'.done /\ Succeeded(run', "saUpdate"))
              => run'.refsAfter = IF HasName(run'.refsBefore, secretName)
                                  THEN run'.refsBefore
                                  ELSE Append(run'.refsBefore, secretName)
      ]_vars

C9_Witness ==
    /\ run.done /\ Succeeded(run, "saUpdate") /\ run.reconciledBefore
    /\ initRefs[run.ns.name] = <<OtherSecret>>
    /\ run.refsBefore = <<OtherSecret, secretName>>
    /\ Refs(run.ns.name) = <<OtherSecret, secretName>>

Converged(n) == secrets[n] # NoSecret /\ HasName(Refs(n), secretName)

\* C10: eventual convergence.  If from some point on the environment is
\* healthy and the namespace is not terminating, then, with events being
\* delivered again and again, the namespace eventually has the secret and its
\* default service account references it, whatever failed before.
C10_EventualConvergence ==
    \A n \in Namespaces :
        <>[](~faulty /\ ~terminating[n]) => <>Converged(n)

\* C11: payload exactness.  The payload of the secret that is built is the
\* text {"auths":{"<endpoint>":{"auth":"<authToken>","email":"none"}}} with the
\* endpoint and the token put in as they are, whatever letters they hold; for
\* the endpoint https://123.dkr.ecr.us-east-1.amazonaws.com and the token
\* QUJD it is the text quoted in the formula.
C11_PayloadExactness ==
    newSecret # NoSecret =>
        /\ newSecret.data[".dockerconfigjson"]
              = "{\"auths\":{\"" \o run.cred.endpoint \o "\":{\"auth\":\""
                    \o run.cred.token \o "\",\"email\":\"none\"}}}"
        /\ (run.cred = [endpoint |-> "https://123.dkr.ecr.us-east-1.amazonaws.com",
                        token |-> "QUJD"])
              => newSecret.data[".dockerconfigjson"]
                    = "{\"auths\":{\"https://123.dkr.ecr.us-east-1.amazonaws.com\":{\"auth\":\"QUJD\",\"email\":\"none\"}}}"

C11_Witness ==
    /\ newSecret # NoSecret
    /\ run.cred = [endpoint |-> "https://123.dkr.ecr.us-east-1.amazonaws.com",
                   token |-> "QUJD"]

\* C12: the resync period given to the namespace watcher is the configured
\* refresh interval, whatever value the flag has.
C12_ResyncIsRefreshInterval ==
    pc \notin {"main", "parsed"} => resyncPeriod = cfg.RefreshInterval

\* C13: a secret Create is issued only after a Get that failed with
\* not-found; after a Get that failed for another reason the run issues no
\* Create.
C13_CreateOnlyAfterNotFound ==
    Issued(run, "secretCreate") > 0
        => ("secretGet" \in run.failed /\ "secretGet" \notin run.faults)

\* the list the identity step of run r works on: the one it read, or the
\* empty list of the object a failed Get leaves
ListRead(r) == IF "saGet" \in r.failed THEN << >> ELSE r.refsBefore

\* C14: a service account Update is issued only in a run that appended the
\* reference; a run that finds a reference named "ecrsecret" in the list
\* issues no Update.
C14_UpdateOnlyWhenAppended ==
    Issued(run, "saUpdate") > 0 => ~HasName(ListRead(run), secretName)

\* C15: a run whose Get of the default service account failed issues no
\* service account Update and returns an error.
C15_FailedReadAbortsIdentityStep ==
    (run.done /\ "saGet" \in run.failed)
        => (Issued(run, "saUpdate") = 0 /\ run.ret # NoError)

\* C16: "Could not get ServiceAccounts!" is logged in a run exactly when the
\* Get of the default service account returned an error in that run,
\* whatever the Get of the secret returned.
C16_IdentityReadFailureLogged ==
    Issued(run, "saGet") > 0
        => (HasName(run.logs, "Could not get ServiceAccounts!")
                <=> "saGet" \in run.failed)

\* C17 as stated: after a run whose service account Update succeeded the list
\* has exactly one reference named "ecrsecret", whatever the list was before.
C17_ExactlyOneReference ==
    (run.done /\ Succeeded(run, "saUpdate"))
        => CountName(Refs(run.ns.name), secretName) = 1

\* C17 amended: after a run whose service account Update succeeded the list
\* has exactly one reference named "ecrsecret" when it had none or one
\* before, and as many as before when it had several.
C17_OneReferenceUnlessSeveral ==
    (run.done /\ Succeeded(run, "saUpdate"))
        => LET before == CountName(run.refsBefore, secretName)
               after == CountName(Refs(run.ns.name), secretName)
           IN  after = IF before = 0 THEN 1 ELSE before

C17_Witness ==
    /\ run.done /\ Succeeded(run, "saUpdate")
    /\ run.refsBefore = <<secretName, secretName>>
    /\ Refs(run.ns.name) = <<secretName, secretName>>

\* C18: an error returned by the handler is logged and nothing more: the
\* process does not end, the handler is not entered again on its own, and
\* the next add or update event of every namespace can be delivered.
C18_ReturnedFailureOnlyLogged ==
    (run.done /\ run.ret # NoError)
        => /\ pc = "idle"
           /\ run.logs[Len(run.logs)] = "handler error"
           /\ \A n \in Namespaces : ENABLED (AddFunc(n) \/ UpdateFunc(n))

C18_Witness ==
    /\ run.done /\ run.ret # NoError
    /\ run.kind = "update" /\ run.ns.name \in reconciled
    /\ Issued(run, "saUpdate") = 1

\* a step that enters the handler for an event
Enters == run' # run /\ run'.calls = << >>

\* C19: serialized dispatch.  The handler is entered only when no run is in
\* progress, one run per delivered event, and a run in progress goes on with
\* its own namespace and its own calls until it returns.
C19_SerializedDispatch ==
    [][ /\ Enters => (pc = "idle" /\ (run.done \/ run = NewRun))
        /\ (pc \notin {"idle", "crashed"})
              => /\ ~run.done
                 /\ run'.ns = run.ns
                 /\ Len(run'.calls) = Len(run.calls) + 1
                 /\ SubSeq(run'.calls, 1, Len(run.calls)) = run.calls
      ]_<<pc, run>>

C19_Witness ==
    /\ run.done /\ Len(run.calls) = 5
    /\ prev # NoPrev /\ prev.name # run.ns.name

\* C20: namespace isolation.  A step changes the secret or the service
\* account of a namespace only within a run for that very namespace.
C20_NamespaceIsolation ==
    [][ \A b \in Namespaces :
            (secrets'[b] # secrets[b] \/ serviceAccounts'[b] # serviceAccounts[b])
                => (pc \notin {"idle", "crashed"} /\ ns.name = b /\ run.ns.name = b)
      ]_vars

C20_Witness ==
    /\ run.done /\ Succeeded(run, "secretCreate") /\ Succeeded(run, "saUpdate")
    /\ \E b \in Namespaces \ {run.ns.name} :
          /\ b \in known
          /\ secrets[b] = NoSecret
          /\ Refs(b) = << >>

\* the same, for the behaviours in which the process does not panic
ConvergenceUnlessPanic ==
    \A n \in Namespaces :
        (<>[](~faulty /\ ~terminating[n]) /\ [](pc # "crashed")) => <>Converged(n)

\* the handler's return value, as the code decides it
ReturnsOnIdentityOrCreateFailure ==
    (run.done /\ ~run.ns.deleting)
        => (run.ret # NoError
                <=> run.failed \cap (IdentityCalls \cup {"secretCreate"}) # {})

====
